---------------------------- MODULE Spec2Model ----------------------------
(* MOOSE-Z v2.0.0: the model registry (resources.py), the task-number     *)
(* lookup and the engine invocation loop (predict.py) and the batch        *)
(* pipeline of main (moosez.py).                                           *)
(*                                                                         *)
(* Strings the program formats into a shell command or whose characters    *)
(* matter (directory paths, Dataset directory names, configuration names)  *)
(* are sequences of one-character strings; all other strings are atoms.    *)
(* A Python value that is None or a dict is a set with no or one element.  *)
EXTENDS Integers, Sequences, FiniteSets, TLC

(* Largest number of input (and of output) directories of one batch. *)
MaxDirs == 2

(* ---------------------------------------------------------------------- *)
(* resources.py: the MODELS registry.                                      *)
(* ---------------------------------------------------------------------- *)

MODELS_clin_ct_lungs ==
    [ url |-> "https://enhance-pet.s3.eu-central-1.amazonaws.com/moose/clin_ct_lungs_24062023.zip",
      filename |-> "Dataset333_HMS3dlungs.zip",
      directory |-> <<"D", "a", "t", "a", "s", "e", "t", "3", "3", "3", "_", "H", "M", "S", "3", "d", "l", "u", "n", "g", "s">>,
      trainer |-> "nnUNetTrainer_2000epochs_NoMirroring",
      voxel_spacing |-> <<"1.5", "1.5", "1.5">>,
      multilabel_prefix |-> "CT_Lungs_",
      configuration |-> <<"3", "d", "_", "f", "u", "l", "l", "r", "e", "s">>,
      planner |-> "nnUNetPlans",
      organ_indices |->
          (1 :> "lung_upper_lobe_left" @@ 2 :> "lung_lower_lobe_left" @@ 3 :> "lung_upper_lobe_right"
           @@ 4 :> "lung_middle_lobe_right" @@ 5 :> "lung_lower_lobe_right"),
      limit_fov |-> {} ]

MODELS_clin_ct_organs ==
    [ url |-> "https://enhance-pet.s3.eu-central-1.amazonaws.com/moose/clin_ct_organs_05082024.zip",
      filename |-> "Dataset123_Organs.zip",
      directory |-> <<"D", "a", "t", "a", "s", "e", "t", "1", "2", "3", "_", "O", "r", "g", "a", "n", "s">>,
      trainer |-> "nnUNetTrainer_2000epochs_NoMirroring",
      voxel_spacing |-> <<"1.5", "1.5", "1.5">>,
      multilabel_prefix |-> "CT_Organs_",
      configuration |-> <<"3", "d", "_", "f", "u", "l", "l", "r", "e", "s">>,
      planner |-> "nnUNetPlans",
      organ_indices |->
          (1 :> "adrenal_gland_left" @@ 2 :> "adrenal_gland_right" @@ 3 :> "bladder"
           @@ 4 :> "brain" @@ 5 :> "gallbladder" @@ 6 :> "kidney_left"
           @@ 7 :> "kidney_right" @@ 8 :> "liver" @@ 9 :> "lung_lower_lobe_left"
           @@ 10 :> "lung_lower_lobe_right" @@ 11 :> "lung_middle_lobe_right" @@ 12 :> "lung_upper_lobe_left"
           @@ 13 :> "lung_upper_lobe_right" @@ 14 :> "pancreas" @@ 15 :> "spleen"
           @@ 16 :> "stomach" @@ 17 :> "thyroid_left" @@ 18 :> "thyroid_right"
           @@ 19 :> "trachea"),
      limit_fov |-> {} ]

MODELS_preclin_mr_all ==
    [ url |-> "https://enhance-pet.s3.eu-central-1.amazonaws.com/moose/preclin_mr_all_05122023.zip",
      filename |-> "Dataset234_minimoose.zip",
      directory |-> <<"D", "a", "t", "a", "s", "e", "t", "2", "3", "4", "_", "m", "i", "n", "i", "m", "o", "o", "s", "e">>,
      trainer |-> "nnUNetTrainer",
      voxel_spacing |-> <<"0.4000000059604645", "0.4000000059604645", "0.4000000059604645">>,
      multilabel_prefix |-> "Preclin_MR_all_",
      configuration |-> <<"3", "d", "_", "f", "u", "l", "l", "r", "e", "s">>,
      planner |-> "nnUNetPlans",
      organ_indices |->
          (1 :> "Brain" @@ 2 :> "Liver" @@ 3 :> "Intestines"
           @@ 4 :> "Pancreas" @@ 5 :> "Thyroid" @@ 6 :> "Spleen"
           @@ 7 :> "Bladder" @@ 8 :> "OuterKidney" @@ 9 :> "InnerKidney"
           @@ 10 :> "HeartInside" @@ 11 :> "HeartOutside" @@ 12 :> "WAT Subcutaneous"
           @@ 13 :> "WAT Visceral" @@ 14 :> "BAT" @@ 15 :> "Muscle TF"
           @@ 16 :> "Muscle TB" @@ 17 :> "Muscle BB" @@ 18 :> "Muscle BF"
           @@ 19 :> "Aorta" @@ 20 :> "Lung" @@ 21 :> "Stomach"),
      limit_fov |-> {} ]

MODELS_clin_ct_body ==
    [ url |-> "https://enhance-pet.s3.eu-central-1.amazonaws.com/moose/clin_ct_body_27112023.zip",
      filename |-> "Dataset001_body.zip",
      directory |-> <<"D", "a", "t", "a", "s", "e", "t", "0", "0", "1", "_", "b", "o", "d", "y">>,
      trainer |-> "nnUNetTrainer",
      voxel_spacing |-> <<"5", "5", "5">>,
      multilabel_prefix |-> "CT_Body_",
      configuration |-> <<"3", "d", "_", "f", "u", "l", "l", "r", "e", "s">>,
      planner |-> "nnUNetPlans",
      organ_indices |->
          (1 :> "Legs" @@ 2 :> "Body" @@ 3 :> "Head"
           @@ 4 :> "Arms"),
      limit_fov |-> {} ]

MODELS_clin_ct_ribs ==
    [ url |-> "https://enhance-pet.s3.eu-central-1.amazonaws.com/moose/clin_ct_ribs_11082024.zip",
      filename |-> "Dataset444_Ribs.zip",
      directory |-> <<"D", "a", "t", "a", "s", "e", "t", "4", "4", "4", "_", "R", "i", "b", "s">>,
      trainer |-> "nnUNetTrainer_2000epochs_NoMirroring",
      voxel_spacing |-> <<"1.5", "1.5", "1.5">>,
      multilabel_prefix |-> "CT_Ribs_",
      configuration |-> <<"3", "d", "_", "f", "u", "l", "l", "r", "e", "s", "_", "b", "i", "g", "_", "p", "a", "t", "c", "h">>,
      planner |-> "nnUNetPlans",
      organ_indices |->
          (1 :> "rib_left_1" @@ 2 :> "rib_left_2" @@ 3 :> "rib_left_3"
           @@ 4 :> "rib_left_4" @@ 5 :> "rib_left_5" @@ 6 :> "rib_left_6"
           @@ 7 :> "rib_left_7" @@ 8 :> "rib_left_8" @@ 9 :> "rib_left_9"
           @@ 10 :> "rib_left_10" @@ 11 :> "rib_left_11" @@ 12 :> "rib_left_12"
           @@ 13 :> "rib_left_13" @@ 14 :> "rib_right_1" @@ 15 :> "rib_right_2"
           @@ 16 :> "rib_right_3" @@ 17 :> "rib_right_4" @@ 18 :> "rib_right_5"
           @@ 19 :> "rib_right_6" @@ 20 :> "rib_right_7" @@ 21 :> "rib_right_8"
           @@ 22 :> "rib_right_9" @@ 23 :> "rib_right_10" @@ 24 :> "rib_right_11"
           @@ 25 :> "rib_right_12" @@ 26 :> "rib_right_13" @@ 27 :> "sternum"),
      limit_fov |-> {} ]

MODELS_clin_ct_muscles ==
    [ url |-> "https://enhance-pet.s3.eu-central-1.amazonaws.com/moose/clin_ct_muscles_09082024.zip",
      filename |-> "Dataset555_Muscles.zip",
      directory |-> <<"D", "a", "t", "a", "s", "e", "t", "5", "5", "5", "_", "M", "u", "s", "c", "l", "e", "s">>,
      trainer |-> "nnUNetTrainer_2000epochs_NoMirroring",
      voxel_spacing |-> <<"1.5", "1.5", "1.5">>,
      multilabel_prefix |-> "CT_Muscles_",
      configuration |-> <<"3", "d", "_", "f", "u", "l", "l", "r", "e", "s">>,
      planner |-> "nnUNetPlans",
      organ_indices |->
          (1 :> "autochthon_left" @@ 2 :> "autochthon_right" @@ 3 :> "gluteus_maximus_left"
           @@ 4 :> "gluteus_maximus_right" @@ 5 :> "gluteus_medius_left" @@ 6 :> "gluteus_medius_right"
           @@ 7 :> "gluteus_minimus_left" @@ 8 :> "gluteus_minimus_right" @@ 9 :> "iliopsoas_left"
           @@ 10 :> "iliopsoas_right"),
      limit_fov |-> {} ]

MODELS_clin_ct_peripheral_bones ==
    [ url |-> "https://enhance-pet.s3.eu-central-1.amazonaws.com/moose/clin_ct_peripheral_bones_05082024.zip",
      filename |-> "Dataset666_Peripheral-Bones.zip",
      directory |-> <<"D", "a", "t", "a", "s", "e", "t", "6", "6", "6", "_", "P", "e", "r", "i", "p", "h", "e", "r", "a", "l", "-", "B", "o", "n", "e", "s">>,
      trainer |-> "nnUNetTrainer_2000epochs_NoMirroring",
      voxel_spacing |-> <<"1.5", "1.5", "1.5">>,
      multilabel_prefix |-> "CT_Peripheral-Bones_",
      configuration |-> <<"3", "d", "_", "f", "u", "l", "l", "r", "e", "s">>,
      planner |-> "nnUNetPlans",
      organ_indices |->
          (1 :> "carpal_left" @@ 2 :> "carpal_right" @@ 3 :> "clavicle_left"
           @@ 4 :> "clavicle_right" @@ 5 :> "femur_left" @@ 6 :> "femur_right"
           @@ 7 :> "fibula_left" @@ 8 :> "fibula_right" @@ 9 :> "fingers_left"
           @@ 10 :> "fingers_right" @@ 11 :> "humerus_left" @@ 12 :> "humerus_right"
           @@ 13 :> "metacarpal_left" @@ 14 :> "metacarpal_right" @@ 15 :> "metatarsal_left"
           @@ 16 :> "metatarsal_right" @@ 17 :> "patella_left" @@ 18 :> "patella_right"
           @@ 19 :> "radius_left" @@ 20 :> "radius_right" @@ 21 :> "scapula_left"
           @@ 22 :> "scapula_right" @@ 23 :> "skull" @@ 24 :> "tarsal_left"
           @@ 25 :> "tarsal_right" @@ 26 :> "tibia_left" @@ 27 :> "tibia_right"
           @@ 28 :> "toes_left" @@ 29 :> "toes_right" @@ 30 :> "ulna_left"
           @@ 31 :> "ulna_right"),
      limit_fov |-> {} ]

MODELS_clin_ct_fat ==
    [ url |-> "https://enhance-pet.s3.eu-central-1.amazonaws.com/moose/clin_ct_fat_31082023.zip",
      filename |-> "Dataset777_Fat.zip",
      directory |-> <<"D", "a", "t", "a", "s", "e", "t", "7", "7", "7", "_", "F", "a", "t">>,
      trainer |-> "nnUNetTrainer_2000epochs_NoMirroring",
      voxel_spacing |-> <<"1.5", "1.5", "1.5">>,
      multilabel_prefix |-> "CT_Fat_",
      configuration |-> <<"3", "d", "_", "f", "u", "l", "l", "r", "e", "s">>,
      planner |-> "nnUNetPlans",
      organ_indices |->
          (1 :> "spinal_chord" @@ 2 :> "skeletal_muscle" @@ 3 :> "subcutaneous_fat"
           @@ 4 :> "visceral_fat" @@ 5 :> "thoracic_fat" @@ 6 :> "eyes"
           @@ 7 :> "testicles" @@ 8 :> "prostate"),
      limit_fov |-> {} ]

MODELS_clin_ct_vertebrae ==
    [ url |-> "https://enhance-pet.s3.eu-central-1.amazonaws.com/moose/clin_ct_vertebrae_11082024.zip",
      filename |-> "Dataset111_Vertebrae.zip",
      directory |-> <<"D", "a", "t", "a", "s", "e", "t", "1", "1", "1", "_", "V", "e", "r", "t", "e", "b", "r", "a", "e">>,
      trainer |-> "nnUNetTrainer_2000_epochs_DA5NoMirroring",
      voxel_spacing |-> <<"1.5", "1.5", "1.5">>,
      multilabel_prefix |-> "CT_Vertebrae_",
      configuration |-> <<"3", "d", "_", "f", "u", "l", "l", "r", "e", "s">>,
      planner |-> "nnUNetPlans",
      organ_indices |->
          (1 :> "vertebra_C1" @@ 2 :> "vertebra_C2" @@ 3 :> "vertebra_C3"
           @@ 4 :> "vertebra_C4" @@ 5 :> "vertebra_C5" @@ 6 :> "vertebra_C6"
           @@ 7 :> "vertebra_C7" @@ 8 :> "vertebra_T1" @@ 9 :> "vertebra_T2"
           @@ 10 :> "vertebra_T3" @@ 11 :> "vertebra_T4" @@ 12 :> "vertebra_T5"
           @@ 13 :> "vertebra_T6" @@ 14 :> "vertebra_T7" @@ 15 :> "vertebra_T8"
           @@ 16 :> "vertebra_T9" @@ 17 :> "vertebra_T10" @@ 18 :> "vertebra_T11"
           @@ 19 :> "vertebra_T12" @@ 20 :> "vertebra_L1" @@ 21 :> "vertebra_L2"
           @@ 22 :> "vertebra_L3" @@ 23 :> "vertebra_L4" @@ 24 :> "vertebra_L5"
           @@ 25 :> "vertebra_L6" @@ 26 :> "hip_left" @@ 27 :> "hip_right"
           @@ 28 :> "sacrum"),
      limit_fov |-> {} ]

MODELS_clin_ct_cardiac ==
    [ url |-> "https://enhance-pet.s3.eu-central-1.amazonaws.com/moose/clin_ct_cardiac_09082024.zip",
      filename |-> "Dataset888_Cardiac.zip",
      directory |-> <<"D", "a", "t", "a", "s", "e", "t", "8", "8", "8", "_", "C", "a", "r", "d", "i", "a", "c">>,
      trainer |-> "nnUNetTrainer_2000epochs_NoMirroring",
      voxel_spacing |-> <<"1.5", "1.5", "1.5">>,
      multilabel_prefix |-> "CT_Cardiac_",
      configuration |-> <<"3", "d", "_", "f", "u", "l", "l", "r", "e", "s">>,
      planner |-> "nnUNetPlans",
      organ_indices |->
          (1 :> "heart_myocardium" @@ 2 :> "heart_atrium_left" @@ 3 :> "heart_atrium_right"
           @@ 4 :> "heart_ventricle_left" @@ 5 :> "heart_ventricle_right" @@ 6 :> "aorta"
           @@ 7 :> "iliac_artery_left" @@ 8 :> "iliac_artery_right" @@ 9 :> "iliac_vena_left"
           @@ 10 :> "iliac_vena_right" @@ 11 :> "inferior_vena_cava" @@ 12 :> "portal_splenic_vein"
           @@ 13 :> "pulmonary_artery"),
      limit_fov |-> {} ]

MODELS_clin_ct_digestive ==
    [ url |-> "https://enhance-pet.s3.eu-central-1.amazonaws.com/moose/clin_ct_digestive_10092023.zip",
      filename |-> "Dataset999_Digestive.zip",
      directory |-> <<"D", "a", "t", "a", "s", "e", "t", "9", "9", "9", "_", "D", "i", "g", "e", "s", "t", "i", "v", "e">>,
      trainer |-> "nnUNetTrainer_2000epochs_NoMirroring",
      voxel_spacing |-> <<"1.5", "1.5", "1.5">>,
      multilabel_prefix |-> "CT_Digestive_",
      configuration |-> <<"3", "d", "_", "f", "u", "l", "l", "r", "e", "s">>,
      planner |-> "nnUNetPlans",
      organ_indices |->
          (1 :> "esophagus" @@ 2 :> "trachea" @@ 3 :> "small_bowel"
           @@ 4 :> "duodenum" @@ 5 :> "colon" @@ 6 :> "urinary_bladder"
           @@ 7 :> "face"),
      limit_fov |-> {} ]

MODELS_preclin_ct_legs ==
    [ url |-> "https://enhance-pet.s3.eu-central-1.amazonaws.com/moose/preclin_ct_legs_05122023.zip",
      filename |-> "Dataset256_Preclin_leg_muscles.zip",
      directory |-> <<"D", "a", "t", "a", "s", "e", "t", "2", "5", "6", "_", "P", "r", "e", "c", "l", "i", "n", "_", "l", "e", "g", "_", "m", "u", "s", "c", "l", "e", "s">>,
      trainer |-> "nnUNetTrainerNoMirroring",
      voxel_spacing |-> <<"0.18000000715255737", "0.18000000715255737", "0.18000000715255737">>,
      multilabel_prefix |-> "Preclin_CT_legs_",
      configuration |-> <<"3", "d", "_", "f", "u", "l", "l", "r", "e", "s">>,
      planner |-> "nnUNetPlans",
      organ_indices |->
          (1 :> "right_leg_muscle" @@ 2 :> "left_leg_muscle"),
      limit_fov |-> {} ]

MODELS_clin_ct_all_bones_v1 ==
    [ url |-> "https://enhance-pet.s3.eu-central-1.amazonaws.com/moose/clin_ct_all_bones_25102023.zip",
      filename |-> "Dataset600_Original_bones.zip",
      directory |-> <<"D", "a", "t", "a", "s", "e", "t", "6", "0", "0", "_", "O", "r", "i", "g", "i", "n", "a", "l", "_", "b", "o", "n", "e", "s">>,
      trainer |-> "nnUNetTrainer_2000epochs",
      voxel_spacing |-> <<"1.5", "1.5", "1.5">>,
      multilabel_prefix |-> "Clin_CT_all_bones_",
      configuration |-> <<"3", "d", "_", "f", "u", "l", "l", "r", "e", "s">>,
      planner |-> "nnUNetPlans",
      organ_indices |->
          (1 :> "carpal" @@ 2 :> "clavicle" @@ 3 :> "femur"
           @@ 4 :> "fibula" @@ 5 :> "humerus" @@ 6 :> "metacarpal"
           @@ 7 :> "metatarsal" @@ 8 :> "patella" @@ 9 :> "pelvis"
           @@ 10 :> "fingers" @@ 11 :> "radius" @@ 12 :> "ribcage"
           @@ 13 :> "scapula" @@ 14 :> "skull" @@ 15 :> "spine"
           @@ 16 :> "sternum" @@ 17 :> "tarsal" @@ 18 :> "tibia"
           @@ 19 :> "toes" @@ 20 :> "ulna"),
      limit_fov |-> {} ]

MODELS_clin_ct_PUMA ==
    [ url |-> "https://enhance-pet.s3.eu-central-1.amazonaws.com/moose/clin_ct_PUMA_1k_23052024.zip",
      filename |-> "Dataset002_PUMA.zip",
      directory |-> <<"D", "a", "t", "a", "s", "e", "t", "0", "0", "2", "_", "P", "U", "M", "A">>,
      trainer |-> "nnUNetTrainer_2000epochs_NoMirroring",
      voxel_spacing |-> <<"1.5", "1.5", "1.5">>,
      multilabel_prefix |-> "Clin_CT_PUMA_",
      configuration |-> <<"3", "d", "_", "f", "u", "l", "l", "r", "e", "s">>,
      planner |-> "nnUNetPlans",
      organ_indices |->
          (0 :> "background" @@ 1 :> "Spleen" @@ 2 :> "Kidneys"
           @@ 3 :> "Gallbladder" @@ 4 :> "Liver" @@ 5 :> "Stomach"
           @@ 6 :> "Pancreas" @@ 7 :> "Adrenal_glands" @@ 8 :> "Lungs"
           @@ 9 :> "Heart_myocardium" @@ 10 :> "Heart_atrium_left" @@ 11 :> "Heart_ventricle_left"
           @@ 12 :> "Heart_atrium_right" @@ 13 :> "Heart_ventricle_right" @@ 14 :> "Pulmonary_artery"
           @@ 15 :> "Aorta" @@ 16 :> "Inferior_vena_cava" @@ 17 :> "Esophagus"
           @@ 18 :> "Trachea" @@ 19 :> "Digestive" @@ 20 :> "Brain"
           @@ 21 :> "Skeleton" @@ 22 :> "Muscles" @@ 23 :> "Bladder"),
      limit_fov |-> {} ]

MODELS_clin_pt_fdg_brain_v1 ==
    [ url |-> "https://enhance-pet.s3.eu-central-1.amazonaws.com/moose/clin_fdg_pt_brain_v1_17112023.zip",
      filename |-> "Dataset100_Brain_v1.zip",
      directory |-> <<"D", "a", "t", "a", "s", "e", "t", "1", "0", "0", "_", "B", "r", "a", "i", "n", "_", "v", "1">>,
      trainer |-> "nnUNetTrainer_2000epochs_NoMirroring",
      voxel_spacing |-> <<"2.03125", "2.0862598419189453", "2.0862600803375244">>,
      multilabel_prefix |-> "Clin_PT_FDG_brain_",
      configuration |-> <<"3", "d", "_", "f", "u", "l", "l", "r", "e", "s">>,
      planner |-> "nnUNetPlans",
      organ_indices |->
          (0 :> "background" @@ 1 :> "R-Hippocampus" @@ 2 :> "L-Hippocampus"
           @@ 3 :> "R-Amygdala" @@ 4 :> "L-Amygdala" @@ 5 :> "R-Anterior-temporal-lobe-medial-part"
           @@ 6 :> "L-Anterior-temporal-lobe-medial-part" @@ 7 :> "R-Anterior-temporal-lobe-lateral-part" @@ 8 :> "L-Anterior-temporal-lobe-lateral-part"
           @@ 9 :> "R-Parahippocampal-and-ambient-gyri" @@ 10 :> "L-Parahippocampal-and-ambient-gyri" @@ 11 :> "R-Superior-temporal-gyrus-posterior-part"
           @@ 12 :> "L-Superior-temporal-gyrus-posterior-part" @@ 13 :> "R-Middle and inferior temporal gyrus" @@ 14 :> "L-Middle and inferior temporal gyrus"
           @@ 15 :> "R-Fusiform gyrus" @@ 16 :> "L-Fusiform gyrus" @@ 17 :> "R-Cerebellum"
           @@ 18 :> "L-Cerebellum" @@ 19 :> "Brainstem" @@ 20 :> "L-Insula"
           @@ 21 :> "R-Insula" @@ 22 :> "L-Lateral remainder of occipital lobe" @@ 23 :> "R-Lateral remainder of occipital lobe"
           @@ 24 :> "L-Cingulate gyrus gyrus cinguli anterior part" @@ 25 :> "R-Cingulate gyrus gyrus cinguli anterior part" @@ 26 :> "L-Cingulate gyrus gyrus cinguli posterior part"
           @@ 27 :> "R-Cingulate gyrus gyrus cinguli posterior part" @@ 28 :> "L-Middle frontal gyrus" @@ 29 :> "R-Middle frontal gyrus"
           @@ 30 :> "L-Posterior temporal lobe" @@ 31 :> "R-Posterior temporal lobe" @@ 32 :> "L-Inferiolateral remainder of parietal lobe"
           @@ 33 :> "R-Inferiolateral remainder of parietal lobe" @@ 34 :> "L-Caudate nucleus" @@ 35 :> "R-Caudate nucleus"
           @@ 36 :> "L-Nucleus accumbens" @@ 37 :> "R-Nucleus accumbens" @@ 38 :> "L-Putamen"
           @@ 39 :> "R-Putamen" @@ 40 :> "L-Thalamus" @@ 41 :> "R-Thalamus"
           @@ 42 :> "L-Pallidum" @@ 43 :> "R-Pallidum" @@ 44 :> "Corpus callosum"
           @@ 45 :> "R-Lateral ventricle excluding temporal horn" @@ 46 :> "L-Lateral ventricle excluding temporal horn" @@ 47 :> "R-Lateral ventricle, temporal horn"
           @@ 48 :> "L-Lateral ventricle, temporal horn" @@ 49 :> "Third ventricle" @@ 50 :> "L-Precentral gyrus"
           @@ 51 :> "R-Precentral gyrus" @@ 52 :> "L-Straight gyrus" @@ 53 :> "R-Straight gyrus"
           @@ 54 :> "L-Anterior orbital gyrus" @@ 55 :> "R-Anterior orbital gyrus" @@ 56 :> "L-Inferior frontal gyrus"
           @@ 57 :> "R-Inferior frontal gyrus" @@ 58 :> "L-Superior frontal gyrus" @@ 59 :> "R-Superior frontal gyrus"
           @@ 60 :> "L-Postcentral gyrus" @@ 61 :> "R-Postcentral gyrus" @@ 62 :> "L-Superior parietal gyrus"
           @@ 63 :> "R-Superior parietal gyrus" @@ 64 :> "L-Lingual gyrus" @@ 65 :> "R-Lingual gyrus"
           @@ 66 :> "L-Cuneus" @@ 67 :> "R-Cuneus" @@ 68 :> "L-Medial orbital gyrus"
           @@ 69 :> "R-Medial orbital gyrus" @@ 70 :> "L-Lateral orbital gyrus" @@ 71 :> "R-Lateral orbital gyrus"
           @@ 72 :> "L-Posterior orbital gyrus" @@ 73 :> "R-Posterior orbital gyrus" @@ 74 :> "L-Substantia nigra"
           @@ 75 :> "R-Substantia nigra" @@ 76 :> "L-Subgenual frontal cortex" @@ 77 :> "R-Subgenual frontal cortex"
           @@ 78 :> "L-Subcallosal area" @@ 79 :> "R-Subcallosal area" @@ 80 :> "L-Pre-subgenual frontal cortex"
           @@ 81 :> "R-Pre-subgenual frontal cortex" @@ 82 :> "L-Superior temporal gyrus anterior part" @@ 83 :> "R-Superior temporal gyrus anterior part"),
      limit_fov |-> {} ]

MODELS_clin_ct_ALPACA ==
    [ url |-> "https://enhance-pet.s3.eu-central-1.amazonaws.com/moose/clin_ct_ALPACA.zip",
      filename |-> "Dataset080_Alpaca.zip",
      directory |-> <<"D", "a", "t", "a", "s", "e", "t", "0", "8", "0", "_", "A", "l", "p", "a", "c", "a">>,
      trainer |-> "nnUNetTrainer_2000epochs_NoMirroring",
      voxel_spacing |-> <<"1.5", "1.5", "1.5">>,
      multilabel_prefix |-> "Clin_CT_ALPACA_",
      configuration |-> <<"3", "d", "_", "f", "u", "l", "l", "r", "e", "s">>,
      planner |-> "nnUNetPlans",
      organ_indices |->
          (1 :> "heart_ventricle_left" @@ 2 :> "heart_ventricle_right" @@ 3 :> "pulmonary_artery"
           @@ 4 :> "iliac_artery_left" @@ 5 :> "iliac_artery_right" @@ 6 :> "aorta"),
      limit_fov |-> {} ]

MODELS_clin_ct_PUMA4 ==
    [ url |-> "https://enhance-pet.s3.eu-central-1.amazonaws.com/moose/clin_ct_PUMA4_06032024.zip",
      filename |-> "Dataset003_PUMA4.zip",
      directory |-> <<"D", "a", "t", "a", "s", "e", "t", "0", "0", "3", "_", "P", "U", "M", "A", "4">>,
      trainer |-> "nnUNetTrainer_2000epochs",
      voxel_spacing |-> <<"4", "4", "4">>,
      multilabel_prefix |-> "Clin_CT_PUMA4_",
      configuration |-> <<"3", "d", "_", "f", "u", "l", "l", "r", "e", "s">>,
      planner |-> "nnUNetPlans",
      organ_indices |->
          (0 :> "background" @@ 1 :> "Spleen" @@ 2 :> "Kidneys"
           @@ 3 :> "Gallbladder" @@ 4 :> "Liver" @@ 5 :> "Stomach"
           @@ 6 :> "Pancreas" @@ 7 :> "Adrenal Glands" @@ 8 :> "Lungs"
           @@ 9 :> "Heart" @@ 10 :> "Vessels" @@ 11 :> "Esophagus"
           @@ 12 :> "Trachea" @@ 13 :> "Digestive" @@ 14 :> "Brain"
           @@ 15 :> "Skeleton" @@ 16 :> "Muscles" @@ 17 :> "Bladder"
           @@ 18 :> "Filler"),
      limit_fov |-> {} ]

MODELS_clin_ct_liver_segments ==
    [ url |-> "https://enhance-pet.s3.eu-central-1.amazonaws.com/moose/clin_ct_liver_segments_10092024.zip",
      filename |-> "Dataset134_Couinaud.zip",
      directory |-> <<"D", "a", "t", "a", "s", "e", "t", "1", "3", "4", "_", "C", "o", "u", "i", "n", "a", "u", "d">>,
      trainer |-> "nnUNetTrainer_2000epochs_NoMirroring",
      voxel_spacing |-> <<"1.5", "1.5", "1.5">>,
      multilabel_prefix |-> "Clin_CT_liver_segments_",
      configuration |-> <<"3", "d", "_", "f", "u", "l", "l", "r", "e", "s">>,
      planner |-> "nnUNetPlans",
      organ_indices |->
          (1 :> "segment_I" @@ 2 :> "segment_II" @@ 3 :> "segment_III"
           @@ 4 :> "segment_IV" @@ 5 :> "segment_V" @@ 6 :> "segment_VI"
           @@ 7 :> "segment_VII" @@ 8 :> "segment_VIII"),
      limit_fov |->
          {[model_to_crop_from |-> "clin_ct_fast_organs",
            inference_fov_intensities |-> <<8>>,
            label_intensity_to_crop_from |-> 8,
            largest_component_only |-> FALSE]} ]

MODELS_clin_ct_fast_organs ==
    [ url |-> "https://enhance-pet.s3.eu-central-1.amazonaws.com/moose/clin_ct_organs_6_02092024.zip",
      filename |-> "Dataset145_Fast_organs.zip",
      directory |-> <<"D", "a", "t", "a", "s", "e", "t", "1", "4", "5", "_", "F", "a", "s", "t", "_", "o", "r", "g", "a", "n", "s">>,
      trainer |-> "nnUNetTrainer_2000epochs",
      voxel_spacing |-> <<"6", "6", "6">>,
      multilabel_prefix |-> "Clin_CT_fast_organs_",
      configuration |-> <<"3", "d", "_", "f", "u", "l", "l", "r", "e", "s">>,
      planner |-> "nnUNetPlans",
      organ_indices |->
          (1 :> "adrenal_gland_left" @@ 2 :> "adrenal_gland_right" @@ 3 :> "bladder"
           @@ 4 :> "brain" @@ 5 :> "gallbladder" @@ 6 :> "kidney_left"
           @@ 7 :> "kidney_right" @@ 8 :> "liver" @@ 9 :> "lung_lower_lobe_left"
           @@ 10 :> "lung_lower_lobe_right" @@ 11 :> "lung_middle_lobe_right" @@ 12 :> "lung_upper_lobe_left"
           @@ 13 :> "lung_upper_lobe_right" @@ 14 :> "pancreas" @@ 15 :> "spleen"
           @@ 16 :> "stomach" @@ 17 :> "thyroid_left" @@ 18 :> "thyroid_right"
           @@ 19 :> "trachea"),
      limit_fov |-> {} ]

(* The aorta entry cropped from a model that is itself cropped. *)
MODELS_clin_ct_aorta_from_liver_segments ==
    [ url |-> "https://enhance-pet.s3.eu-central-1.amazonaws.com/moose/clin_ct_aorta_02092024.zip",
      filename |-> "Dataset321_Aorta.zip",
      directory |-> <<"D", "a", "t", "a", "s", "e", "t", "3", "2", "1", "_", "A", "o", "r", "t", "a">>,
      trainer |-> "nnUNetTrainer_2000epochs_NoMirroring",
      voxel_spacing |-> <<"1.5", "1.5", "1.5">>,
      multilabel_prefix |-> "Clin_CT_aorta_",
      configuration |-> <<"3", "d", "_", "f", "u", "l", "l", "r", "e", "s">>,
      planner |-> "nnUNetPlans",
      organ_indices |->
          (1 :> "zone_0" @@ 2 :> "innominate" @@ 3 :> "zone_1"
           @@ 4 :> "left_common_carotid" @@ 5 :> "zone_2" @@ 6 :> "left_subclavian_artery"
           @@ 7 :> "zone_3" @@ 8 :> "zone_4" @@ 9 :> "zone_5"
           @@ 10 :> "zone_6" @@ 11 :> "celiac_artery" @@ 12 :> "zone_7"
           @@ 13 :> "sma" @@ 14 :> "zone_8" @@ 15 :> "right_renal_artery"
           @@ 16 :> "left_renal_artery" @@ 17 :> "zone_9" @@ 18 :> "right_common_iliac_artery"
           @@ 19 :> "left_common_iliac_artery" @@ 20 :> "right_internal_iliac_artery" @@ 21 :> "left_internal_iliac_artery"
           @@ 22 :> "right_external_iliac_artery" @@ 23 :> "left_external_iliac_artery"),
      limit_fov |->
          {[model_to_crop_from |-> "clin_ct_liver_segments",
            inference_fov_intensities |-> <<6>>,
            label_intensity_to_crop_from |-> 6,
            largest_component_only |-> FALSE]} ]

MODELS_clin_ct_aorta ==
    [ url |-> "https://enhance-pet.s3.eu-central-1.amazonaws.com/moose/clin_ct_aorta_02092024.zip",
      filename |-> "Dataset321_Aorta.zip",
      directory |-> <<"D", "a", "t", "a", "s", "e", "t", "3", "2", "1", "_", "A", "o", "r", "t", "a">>,
      trainer |-> "nnUNetTrainer_2000epochs_NoMirroring",
      voxel_spacing |-> <<"1.5", "1.5", "1.5">>,
      multilabel_prefix |-> "Clin_CT_aorta_",
      configuration |-> <<"3", "d", "_", "f", "u", "l", "l", "r", "e", "s">>,
      planner |-> "nnUNetPlans",
      organ_indices |->
          (1 :> "zone_0" @@ 2 :> "innominate" @@ 3 :> "zone_1"
           @@ 4 :> "left_common_carotid" @@ 5 :> "zone_2" @@ 6 :> "left_subclavian_artery"
           @@ 7 :> "zone_3" @@ 8 :> "zone_4" @@ 9 :> "zone_5"
           @@ 10 :> "zone_6" @@ 11 :> "celiac_artery" @@ 12 :> "zone_7"
           @@ 13 :> "sma" @@ 14 :> "zone_8" @@ 15 :> "right_renal_artery"
           @@ 16 :> "left_renal_artery" @@ 17 :> "zone_9" @@ 18 :> "right_common_iliac_artery"
           @@ 19 :> "left_common_iliac_artery" @@ 20 :> "right_internal_iliac_artery" @@ 21 :> "left_internal_iliac_artery"
           @@ 22 :> "right_external_iliac_artery" @@ 23 :> "left_external_iliac_artery"),
      limit_fov |->
          {[model_to_crop_from |-> "clin_ct_fast_cardiac",
            inference_fov_intensities |-> <<6>>,
            label_intensity_to_crop_from |-> 6,
            largest_component_only |-> FALSE]} ]

MODELS_clin_pt_fdg_tumor ==
    [ organ_indices |->
          (1 :> "tumor"),
      limit_fov |-> {} ]

MODELS_clin_ct_body_composition ==
    [ url |-> "https://enhance-pet.s3.eu-central-1.amazonaws.com/moose/clin_ct_body_composition_05092024.zip",
      filename |-> "Dataset778_Body_composition.zip",
      directory |-> <<"D", "a", "t", "a", "s", "e", "t", "7", "7", "8", "_", "B", "o", "d", "y", "_", "c", "o", "m", "p", "o", "s", "i", "t", "i", "o", "n">>,
      trainer |-> "nnUNetTrainer_2000epochs",
      voxel_spacing |-> <<"1.5", "1.5", "1.5">>,
      multilabel_prefix |-> "Clin_CT_body_composition_",
      configuration |-> <<"3", "d", "_", "f", "u", "l", "l", "r", "e", "s">>,
      planner |-> "nnUNetPlans",
      organ_indices |->
          (1 :> "skeletal_muscle" @@ 2 :> "subcutaneous_fat" @@ 3 :> "visceral_fat"),
      limit_fov |->
          {[model_to_crop_from |-> "clin_ct_fast_vertebrae",
            inference_fov_intensities |-> <<20, 24>>,
            label_intensity_to_crop_from |-> 22,
            largest_component_only |-> TRUE]} ]

MODELS_clin_ct_fast_vertebrae ==
    [ url |-> "https://enhance-pet.s3.eu-central-1.amazonaws.com/moose/clin_ct_vertebrae3_10092024.zip",
      filename |-> "Dataset112_FastVertebrae.zip",
      directory |-> <<"D", "a", "t", "a", "s", "e", "t", "1", "1", "2", "_", "F", "a", "s", "t", "V", "e", "r", "t", "e", "b", "r", "a", "e">>,
      trainer |-> "nnUNetTrainer_2000_epochs_DA5NoMirroring",
      voxel_spacing |-> <<"3", "3", "3">>,
      multilabel_prefix |-> "Clin_CT_fast_vertebrae_",
      configuration |-> <<"3", "d", "_", "f", "u", "l", "l", "r", "e", "s">>,
      planner |-> "nnUNetPlans",
      organ_indices |->
          (1 :> "vertebra_C1" @@ 2 :> "vertebra_C2" @@ 3 :> "vertebra_C3"
           @@ 4 :> "vertebra_C4" @@ 5 :> "vertebra_C5" @@ 6 :> "vertebra_C6"
           @@ 7 :> "vertebra_C7" @@ 8 :> "vertebra_T1" @@ 9 :> "vertebra_T2"
           @@ 10 :> "vertebra_T3" @@ 11 :> "vertebra_T4" @@ 12 :> "vertebra_T5"
           @@ 13 :> "vertebra_T6" @@ 14 :> "vertebra_T7" @@ 15 :> "vertebra_T8"
           @@ 16 :> "vertebra_T9" @@ 17 :> "vertebra_T10" @@ 18 :> "vertebra_T11"
           @@ 19 :> "vertebra_T12" @@ 20 :> "vertebra_L1" @@ 21 :> "vertebra_L2"
           @@ 22 :> "vertebra_L3" @@ 23 :> "vertebra_L4" @@ 24 :> "vertebra_L5"
           @@ 25 :> "vertebra_L6" @@ 26 :> "hip_left" @@ 27 :> "hip_right"
           @@ 28 :> "sacrum"),
      limit_fov |-> {} ]

MODELS_clin_ct_fast_cardiac ==
    [ url |-> "https://enhance-pet.s3.eu-central-1.amazonaws.com/moose/clin_ct_cardiac3_10092024.zip",
      filename |-> "Dataset890_FastCardiac.zip",
      directory |-> <<"D", "a", "t", "a", "s", "e", "t", "8", "9", "0", "_", "F", "a", "s", "t", "C", "a", "r", "d", "i", "a", "c">>,
      trainer |-> "nnUNetTrainer_2000epochs_NoMirroring",
      voxel_spacing |-> <<"3", "3", "3">>,
      multilabel_prefix |-> "CT_Fast_Cardiac_",
      configuration |-> <<"3", "d", "_", "f", "u", "l", "l", "r", "e", "s">>,
      planner |-> "nnUNetPlans",
      organ_indices |->
          (1 :> "heart_myocardium" @@ 2 :> "heart_atrium_left" @@ 3 :> "heart_atrium_right"
           @@ 4 :> "heart_ventricle_left" @@ 5 :> "heart_ventricle_right" @@ 6 :> "aorta"
           @@ 7 :> "iliac_artery_left" @@ 8 :> "iliac_artery_right" @@ 9 :> "iliac_vena_left"
           @@ 10 :> "iliac_vena_right" @@ 11 :> "inferior_vena_cava" @@ 12 :> "portal_splenic_vein"
           @@ 13 :> "pulmonary_artery"),
      limit_fov |-> {} ]

MODELS ==
    "clin_ct_lungs" :> MODELS_clin_ct_lungs
    @@ "clin_ct_organs" :> MODELS_clin_ct_organs
    @@ "preclin_mr_all" :> MODELS_preclin_mr_all
    @@ "clin_ct_body" :> MODELS_clin_ct_body
    @@ "clin_ct_ribs" :> MODELS_clin_ct_ribs
    @@ "clin_ct_muscles" :> MODELS_clin_ct_muscles
    @@ "clin_ct_peripheral_bones" :> MODELS_clin_ct_peripheral_bones
    @@ "clin_ct_fat" :> MODELS_clin_ct_fat
    @@ "clin_ct_vertebrae" :> MODELS_clin_ct_vertebrae
    @@ "clin_ct_cardiac" :> MODELS_clin_ct_cardiac
    @@ "clin_ct_digestive" :> MODELS_clin_ct_digestive
    @@ "preclin_ct_legs" :> MODELS_preclin_ct_legs
    @@ "clin_ct_all_bones_v1" :> MODELS_clin_ct_all_bones_v1
    @@ "clin_ct_PUMA" :> MODELS_clin_ct_PUMA
    @@ "clin_pt_fdg_brain_v1" :> MODELS_clin_pt_fdg_brain_v1
    @@ "clin_ct_ALPACA" :> MODELS_clin_ct_ALPACA
    @@ "clin_ct_PUMA4" :> MODELS_clin_ct_PUMA4
    @@ "clin_ct_liver_segments" :> MODELS_clin_ct_liver_segments
    @@ "clin_ct_fast_organs" :> MODELS_clin_ct_fast_organs
    @@ "clin_ct_aorta" :> MODELS_clin_ct_aorta
    @@ "clin_pt_fdg_tumor" :> MODELS_clin_pt_fdg_tumor
    @@ "clin_ct_body_composition" :> MODELS_clin_ct_body_composition
    @@ "clin_ct_fast_vertebrae" :> MODELS_clin_ct_fast_vertebrae
    @@ "clin_ct_fast_cardiac" :> MODELS_clin_ct_fast_cardiac

AVAILABLE_MODELS == DOMAIN MODELS

(* ---------------------------------------------------------------------- *)
(* Python results: a call returns a value or raises.                       *)
(* ---------------------------------------------------------------------- *)

Return(v) == [raised |-> FALSE, value |-> v]

Raise(e) == [raised |-> TRUE, exception |-> e]

(* d[k] = v on a dict *)
SetItem(d, k, v) == [x \in (DOMAIN d) \cup {k} |-> IF x = k THEN v ELSE d[x]]

(* ---------------------------------------------------------------------- *)
(* resources.py: expected_modality.                                        *)
(* ---------------------------------------------------------------------- *)

Modality(imaging, modality, tissue) ==
    "Imaging" :> imaging @@ "Modality" :> modality @@ "Tissue of interest" :> tissue

expected_modality_models ==
       "clin_ct_lungs" :> Modality("Clinical", "CT", "Lungs")
    @@ "clin_ct_organs" :> Modality("Clinical", "CT", "Organs")
    @@ "clin_ct_body" :> Modality("Clinical", "CT", "Body, Arms, legs, head")
    @@ "preclin_mr_all" :> Modality("Pre-clinical", "MR", "All regions")
    @@ "clin_ct_ribs" :> Modality("Clinical", "CT", "Ribs")
    @@ "clin_ct_muscles" :> Modality("Clinical", "CT", "Muscles")
    @@ "clin_ct_peripheral_bones" :> Modality("Clinical", "CT", "Peripheral Bones")
    @@ "clin_ct_fat" :> Modality("Clinical", "CT", "Fat")
    @@ "clin_ct_vertebrae" :> Modality("Clinical", "CT", "Vertebrae")
    @@ "clin_ct_cardiac" :> Modality("Clinical", "CT", "Cardiac")
    @@ "clin_ct_digestive" :> Modality("Clinical", "CT", "Digestive")
    @@ "preclin_ct_legs" :> Modality("Pre-clinical", "CT", "Legs")
    @@ "clin_ct_all_bones_v1" :> Modality("Clinical", "CT", "All bones")
    @@ "clin_ct_PUMA" :> Modality("Clinical", "CT", "PUMA tissues")
    @@ "clin_pt_fdg_brain_v1" :> Modality("Clinical", "PT", "Brain regions")
    @@ "clin_ct_ALPACA" :> Modality("Clinical", "CT", "ALPACA tissues")
    @@ "clin_ct_PUMA4" :> Modality("Clinical", "CT", "PUMA tissues")
    @@ "clin_ct_liver_segments" :> Modality("Clinical", "CT", "Liver segments")
    @@ "clin_ct_fast_organs" :> Modality("Clinical", "CT", "Organs")
    @@ "clin_ct_aorta" :> Modality("Clinical", "CT", "Aorta segments")
    @@ "clin_ct_body_composition" :>
           Modality("Clinical", "CT", "Body composition on the L3 vertebra region")

NotAvailable == "Requested model is not available. Please check the model name."

(* expected_modality without the 'Model name' entry. *)
expected_modality_unnamed(name) ==
    IF name \in DOMAIN expected_modality_models
    THEN [raised |-> FALSE, value |-> expected_modality_models[name], logged |-> <<>>]
    ELSE [raised |-> FALSE, value |-> "Error" :> NotAvailable,
          logged |-> << " Requested model is not available. Please check the model name." >>]

(* The result carries the error records the call logged. *)
expected_modality(name) ==
    IF name \in DOMAIN expected_modality_models
    THEN LET model == expected_modality_models[name]
         IN  [raised |-> FALSE, value |-> SetItem(model, "Model name", name), logged |-> <<>>]
    ELSE [raised |-> FALSE, value |-> "Error" :> NotAvailable,
          logged |-> << " Requested model is not available. Please check the model name." >>]

(* ---------------------------------------------------------------------- *)
(* predict.py: map_model_name_to_task_number.                              *)
(* ---------------------------------------------------------------------- *)

(* The lookup with the task numbers of clin_ct_all and clin_fdg_pt_ct_all  *)
(* exchanged.                                                               *)
map_model_name_to_task_number_swapped(name) ==
    IF name = "clin_ct_bones" THEN Return(201)
    ELSE IF name = "clin_ct_ribs" THEN Return(202)
    ELSE IF name = "clin_ct_vertebrae" THEN Return(203)
    ELSE IF name = "clin_ct_muscles" THEN Return(204)
    ELSE IF name = "clin_ct_lungs" THEN Return(205)
    ELSE IF name = "clin_ct_fat" THEN Return(206)
    ELSE IF name = "clin_ct_vessels" THEN Return(207)
    ELSE IF name = "clin_ct_organs" THEN Return(208)
    ELSE IF name = "clin_pt_fdg_tumor" THEN Return(209)
    ELSE IF name = "clin_ct_all" THEN Return(211)
    ELSE IF name = "clin_fdg_pt_ct_all" THEN Return(210)
    ELSE IF name = "preclin_mr_all" THEN Return(212)
    ELSE Raise("Exception")

map_model_name_to_task_number(name) ==
    IF name = "clin_ct_bones" THEN Return(201)
    ELSE IF name = "clin_ct_ribs" THEN Return(202)
    ELSE IF name = "clin_ct_vertebrae" THEN Return(203)
    ELSE IF name = "clin_ct_muscles" THEN Return(204)
    ELSE IF name = "clin_ct_lungs" THEN Return(205)
    ELSE IF name = "clin_ct_fat" THEN Return(206)
    ELSE IF name = "clin_ct_vessels" THEN Return(207)
    ELSE IF name = "clin_ct_organs" THEN Return(208)
    ELSE IF name = "clin_pt_fdg_tumor" THEN Return(209)
    ELSE IF name = "clin_ct_all" THEN Return(210)
    ELSE IF name = "clin_fdg_pt_ct_all" THEN Return(211)
    ELSE IF name = "preclin_mr_all" THEN Return(212)
    ELSE Raise("Exception")

(* ---------------------------------------------------------------------- *)
(* resources.py: check_device.                                             *)
(* ---------------------------------------------------------------------- *)

(* The machines: the MPS backend is available only where it is built. *)
Devices ==
    { d \in [cuda : BOOLEAN, mps_available : BOOLEAN, mps_built : BOOLEAN] :
          d.mps_available => d.mps_built }

(* check_device that asks for the MPS backend before CUDA. *)
check_device_mps_first(t) ==
    IF t.mps_available
    THEN Return("mps") @@ [printed |->
             " Apple MPS backend is available. Predictions will be run on Apple Silicon GPU."]
    ELSE IF t.cuda
    THEN Return("cuda") @@ [printed |->
             " CUDA is available with {device_count} GPU(s). Predictions will be run on GPU."]
    ELSE IF ~t.mps_built
    THEN Return("cpu") @@ [printed |->
             " MPS not available because the current PyTorch install was not built with MPS enabled."]
    ELSE Return("cpu") @@ [printed |->
             " CUDA/MPS not available. Predictions will be run on CPU."]

(* The result carries the line the call printed. *)
check_device(t) ==
    IF t.cuda
    THEN Return("cuda") @@ [printed |->
             " CUDA is available with {device_count} GPU(s). Predictions will be run on GPU."]
    ELSE IF t.mps_available
    THEN Return("mps") @@ [printed |->
             " Apple MPS backend is available. Predictions will be run on Apple Silicon GPU."]
    ELSE IF ~t.mps_built
    THEN Return("cpu") @@ [printed |->
             " MPS not available because the current PyTorch install was not built with MPS enabled."]
    ELSE Return("cpu") @@ [printed |->
             " CUDA/MPS not available. Predictions will be run on CPU."]

(* ---------------------------------------------------------------------- *)
(* predict.py: the command line of predict and what the shell makes of it. *)
(* ---------------------------------------------------------------------- *)

Digits == <<"0", "1", "2", "3", "4", "5", "6", "7", "8", "9">>

(* str(n) of a natural number, as an f-string formats it *)
RECURSIVE Str(_)
Str(n) == IF n < 10 THEN <<Digits[n + 1]>>
          ELSE Str(n \div 10) \o <<Digits[(n % 10) + 1]>>

(* f'nnUNet_predict -i {input_dir} -o {output_dir} -t {task_number} -m 3d_fullres -f all' *)
Command(input_dir, output_dir, task_number) ==
    <<"n", "n", "U", "N", "e", "t", "_", "p", "r", "e", "d", "i", "c", "t", " ", "-", "i", " ">>
    \o input_dir
    \o <<" ", "-", "o", " ">>
    \o output_dir
    \o <<" ", "-", "t", " ">>
    \o Str(task_number)
    \o <<" ", "-", "m", " ", "3", "d", "_", "f", "u", "l", "l", "r", "e", "s",
         " ", "-", "f", " ", "a", "l", "l">>

(* shell=True: the shell splits the unquoted command line into words at blanks *)
RECURSIVE ShellSplit(_, _, _)
ShellSplit(cmd, word, words) ==
    IF cmd = <<>>
    THEN IF word = <<>> THEN words ELSE Append(words, word)
    ELSE IF Head(cmd) = " "
         THEN ShellSplit(Tail(cmd), <<>>, IF word = <<>> THEN words ELSE Append(words, word))
         ELSE ShellSplit(Tail(cmd), Append(word, Head(cmd)), words)

Argv(cmd) == ShellSplit(cmd, <<>>, <<>>)

(* ---------------------------------------------------------------------- *)
(* The program state.                                                      *)
(* ---------------------------------------------------------------------- *)

(* moosez.py: the choices of --model_name *)
choices ==
    { "clin_ct_bones", "clin_ct_ribs", "clin_ct_vertebrae", "clin_ct_muscles",
      "clin_ct_lungs", "clin_ct_fat", "clin_ct_vessels", "clin_ct_organs",
      "clin_pt_fdg_tumor", "clin_ct_all", "clin_fdg_pt_ct_all", "preclin_mr_all" }

(* The model names a caller may pass. *)
ModelNames == AVAILABLE_MODELS \cup choices \cup {"clin_ct_unknown"}

(* Directory paths of a batch: plain ones and one with a blank in it. *)
InputPaths == { <<"/", "a">>, <<"/", "b">>, <<"/", "a", " ", "b">> }

OutputPaths == { <<"/", "x">>, <<"/", "y">> }

SeqsUpTo(S, n) == UNION { [1..k -> S] : k \in 0..n }

(* Exit statuses of the engine process: success and failure. *)
ExitStatuses == {0, 1}

(* constants.NNUNET_RESULTS_FOLDER *)
NNUNET_RESULTS_FOLDER == "constants.NNUNET_RESULTS_FOLDER"

(* Values of RESULTS_FOLDER in the environment the tool is started in. *)
InitialResultsFolders == {"<unset>", "/elsewhere/results"}

Min(a, b) == IF a < b THEN a ELSE b

VARIABLES
    call,         \* the entry point that was called
    pc,           \* the position of the program
    model_name,   \* the model_name argument
    input_dirs,   \* the input directories of the batch
    output_dirs,  \* the output directories of the batch
    idx,          \* number of loop iterations started
    cur,          \* the arguments of the predict call in progress
    environ,      \* os.environ
    engine,       \* the engine processes started, in order
    console,      \* spinner results and section headers printed
    logged,       \* logging.error records
    ret,          \* what the entry point returned or raised
    trace,        \* the pipeline steps of main that have returned
    compatible,   \* directories make_nnunet_compatible has returned for
    spinner,      \* the Halo spinner: "spinning" while its thread runs
    torch         \* what torch reports about the devices of the machine

vars == << call, pc, model_name, input_dirs, output_dirs, idx, cur, environ,
           engine, console, logged, ret, trace, compatible, spinner, torch >>

NoDevices == [cuda |-> FALSE, mps_available |-> FALSE, mps_built |-> FALSE]

NoCall == [model_name |-> "", input_dir |-> <<>>, output_dir |-> <<>>]

Init ==
    /\ call = "none"
    /\ pc = "idle"
    /\ model_name = ""
    /\ input_dirs = <<>>
    /\ output_dirs = <<>>
    /\ idx = 0
    /\ cur = NoCall
    /\ environ \in { [RESULTS_FOLDER |-> v] : v \in InitialResultsFolders }
    /\ engine = <<>>
    /\ console = <<>>
    /\ logged = <<>>
    /\ ret = [raised |-> FALSE, value |-> "pending"]
    /\ trace = <<>>
    /\ compatible = {}
    /\ spinner = "none"
    /\ torch = NoDevices

(* ---------------------------------------------------------------------- *)
(* Calls of the pure functions.                                            *)
(* ---------------------------------------------------------------------- *)

Call_map_model_name_to_task_number ==
    /\ pc = "idle"
    /\ \E name \in ModelNames :
           /\ call' = "map_model_name_to_task_number"
           /\ model_name' = name
           /\ ret' = map_model_name_to_task_number(name)
           /\ pc' = "done"
           /\ UNCHANGED << input_dirs, output_dirs, idx, cur, environ, engine, console,
                           logged, trace, compatible, spinner, torch >>

Call_expected_modality ==
    /\ pc = "idle"
    /\ \E name \in ModelNames :
           /\ call' = "expected_modality"
           /\ model_name' = name
           /\ LET r == expected_modality(name)
              IN  /\ ret' = [raised |-> r.raised, value |-> r.value]
                  /\ logged' = logged \o r.logged
           /\ pc' = "done"
           /\ UNCHANGED << input_dirs, output_dirs, idx, cur, environ, engine, console,
                           trace, compatible, spinner, torch >>

Call_check_device ==
    /\ pc = "idle"
    /\ \E t \in Devices :
           /\ call' = "check_device"
           /\ torch' = t
           /\ LET r == check_device(t)
              IN  /\ ret' = [raised |-> r.raised, value |-> r.value]
                  /\ console' = Append(console, r.printed)
           /\ pc' = "done"
           /\ UNCHANGED << model_name, input_dirs, output_dirs, idx, cur, environ,
                           engine, logged, trace, compatible, spinner >>

(* ---------------------------------------------------------------------- *)
(* predict.py: predict.                                                    *)
(* ---------------------------------------------------------------------- *)

Call_predict ==
    /\ pc = "idle"
    /\ \E name \in ModelNames, input_dir \in InputPaths, output_dir \in OutputPaths :
           /\ call' = "predict"
           /\ model_name' = name
           /\ cur' = [model_name |-> name, input_dir |-> input_dir, output_dir |-> output_dir]
           /\ pc' = "predict"
           /\ UNCHANGED << input_dirs, output_dirs, idx, environ, engine, console, logged,
                           ret, trace, compatible, spinner, torch >>

(* predict that starts the process and returns without waiting for it. *)
PredictStart_no_wait ==
    /\ pc = "predict"
    /\ LET task_number == map_model_name_to_task_number(cur.model_name)
       IN  IF task_number.raised
           THEN /\ ret' = task_number
                /\ pc' = "done"
                /\ UNCHANGED << environ, engine >>
           ELSE /\ environ' = [environ EXCEPT !.RESULTS_FOLDER = NNUNET_RESULTS_FOLDER]
                /\ engine' = Append(engine,
                       [ args |-> cur,
                         argv |-> Argv(Command(cur.input_dir, cur.output_dir,
                                               task_number.value)),
                         env |-> environ',
                         state |-> "running" ])
                /\ IF call = "predict"
                   THEN /\ ret' = Return("None")
                        /\ pc' = "done"
                   ELSE /\ pc' = "run_prediction_loop"
                        /\ UNCHANGED ret
    /\ UNCHANGED << call, model_name, input_dirs, output_dirs, idx, cur, console,
                    logged, trace, compatible, spinner, torch >>

(* Lines 69-72 up to the start of the process.  An exception of the lookup *)
(* leaves predict and, uncaught, run_prediction.                           *)
PredictStart ==
    /\ pc = "predict"
    /\ LET task_number == map_model_name_to_task_number(cur.model_name)
       IN  IF task_number.raised
           THEN /\ ret' = task_number
                /\ pc' = "done"
                /\ UNCHANGED << environ, engine >>
           ELSE /\ environ' = [environ EXCEPT !.RESULTS_FOLDER = NNUNET_RESULTS_FOLDER]
                /\ engine' = Append(engine,
                       [ args |-> cur,
                         argv |-> Argv(Command(cur.input_dir, cur.output_dir,
                                               task_number.value)),
                         env |-> environ',
                         state |-> "running" ])
                /\ pc' = "predict_wait"
                /\ UNCHANGED ret
    /\ UNCHANGED << call, model_name, input_dirs, output_dirs, idx, cur, console,
                    logged, trace, compatible, spinner, torch >>

(* The process ends; subprocess.run returns a CompletedProcess that predict *)
(* drops, and predict returns None.                                         *)
EngineExit ==
    /\ pc = "predict_wait"
    /\ \E status \in ExitStatuses :
           /\ engine' = [engine EXCEPT ![Len(engine)] =
                             [ args |-> @.args, argv |-> @.argv, env |-> @.env,
                               state |-> "exited", returncode |-> status ]]
           /\ IF call = "predict"
              THEN /\ ret' = Return("None")
                   /\ pc' = "done"
              ELSE /\ pc' = "run_prediction_loop"
                   /\ UNCHANGED ret
           /\ UNCHANGED << call, model_name, input_dirs, output_dirs, idx, cur, environ,
                           console, logged, trace, compatible, spinner, torch >>

(* ---------------------------------------------------------------------- *)
(* predict.py: run_prediction.                                             *)
(* ---------------------------------------------------------------------- *)

Call_run_prediction ==
    /\ pc = "idle"
    /\ \E name \in ModelNames, ins \in SeqsUpTo(InputPaths, MaxDirs),
          outs \in SeqsUpTo(OutputPaths, MaxDirs) :
           /\ call' = "run_prediction"
           /\ model_name' = name
           /\ input_dirs' = ins
           /\ output_dirs' = outs
           /\ idx' = 0
           /\ pc' = "run_prediction_loop"
           /\ spinner' = "created"
           /\ UNCHANGED << cur, environ, engine, console, logged, ret, trace,
                           compatible, torch >>

(* The loop with every input directory paired with the first output        *)
(* directory.                                                               *)
RunPredictionNext_first_output ==
    /\ pc = "run_prediction_loop"
    /\ idx < Min(Len(input_dirs), Len(output_dirs))
    /\ idx' = idx + 1
    /\ cur' = [ model_name |-> model_name, input_dir |-> input_dirs[idx + 1],
                output_dir |-> output_dirs[1] ]
    /\ pc' = "predict"
    /\ UNCHANGED << call, model_name, input_dirs, output_dirs, environ, engine,
                    console, logged, ret, trace, compatible, spinner, torch >>

(* for input_dir, output_dir in zip(input_dirs, output_dirs): predict(...) *)
RunPredictionNext ==
    /\ pc = "run_prediction_loop"
    /\ idx < Min(Len(input_dirs), Len(output_dirs))
    /\ idx' = idx + 1
    /\ cur' = [ model_name |-> model_name, input_dir |-> input_dirs[idx + 1],
                output_dir |-> output_dirs[idx + 1] ]
    /\ pc' = "predict"
    /\ UNCHANGED << call, model_name, input_dirs, output_dirs, environ, engine,
                    console, logged, ret, trace, compatible, spinner, torch >>

(* spinner.succeed('Prediction complete') *)
RunPredictionComplete ==
    /\ pc = "run_prediction_loop"
    /\ idx >= Min(Len(input_dirs), Len(output_dirs))
    /\ console' = Append(console, "Prediction complete")
    /\ spinner' = "stopped"
    /\ ret' = Return("None")
    /\ pc' = "done"
    /\ UNCHANGED << call, model_name, input_dirs, output_dirs, idx, cur, environ,
                    engine, logged, trace, compatible, torch >>

(* ---------------------------------------------------------------------- *)
(* moosez.py: main.  The functions main calls in display, download,        *)
(* file_utilities and input_validation are steps that return or raise.     *)
(* ---------------------------------------------------------------------- *)

(* parse_args() ends the program when --model_name is not among the choices. *)
MainParseArgs ==
    /\ pc = "idle"
    /\ \E name \in ModelNames :
           /\ call' = "main"
           /\ model_name' = name
           /\ IF name \in choices
              THEN /\ pc' = "main_download"
                   /\ UNCHANGED ret
              ELSE /\ pc' = "done"
                   /\ ret' = Raise("SystemExit")
           /\ UNCHANGED << input_dirs, output_dirs, idx, cur, environ, engine, console,
                           logged, trace, compatible, spinner, torch >>

(* One call of main that returns: the step is recorded and main moves on. *)
MainCall(at, step, next) ==
    /\ pc = at
    /\ trace' = Append(trace, step)
    /\ pc' = next
    /\ UNCHANGED << call, model_name, input_dirs, output_dirs, idx, cur, environ,
                    engine, console, logged, ret, compatible, spinner, torch >>

(* The subject files are organised where the model should be downloaded. *)
MainDownload_organises ==
    MainCall("main_download", "file_utilities.organise_files_by_modality",
             "main_expected_modality")

MainDownload ==
    MainCall("main_download", "download.model", "main_expected_modality")

MainExpectedModality ==
    MainCall("main_expected_modality", "display.expected_modality",
             "main_folder_structure")

(* moose_dir, input_dirs, output_dirs = file_utilities.moose_folder_structure(...) *)
MainFolderStructure ==
    /\ pc = "main_folder_structure"
    /\ \E ins \in SeqsUpTo(InputPaths, MaxDirs),
          outs \in SeqsUpTo(OutputPaths, MaxDirs) :
           /\ trace' = Append(trace, "file_utilities.moose_folder_structure")
           /\ input_dirs' = ins
           /\ output_dirs' = outs
           /\ pc' = "main_select_subjects"
           /\ UNCHANGED << call, model_name, idx, cur, environ, engine, console, logged,
                           ret, compatible, spinner, torch >>

MainSelectSubjects ==
    MainCall("main_select_subjects",
             "input_validation.select_moose_compliant_subjects", "main_organise")

(* organise_files_by_modality returns; spinner = Halo(...); spinner.start() *)
MainOrganise ==
    /\ pc = "main_organise"
    /\ trace' = Append(trace, "file_utilities.organise_files_by_modality")
    /\ spinner' = "spinning"
    /\ pc' = "main_compatible_loop"
    /\ UNCHANGED << call, model_name, input_dirs, output_dirs, idx, cur, environ,
                    engine, console, logged, ret, compatible, torch >>

(* for input_dir in input_dirs: input_validation.make_nnunet_compatible(input_dir) *)
MainMakeCompatible ==
    /\ pc = "main_compatible_loop"
    /\ idx < Len(input_dirs)
    /\ idx' = idx + 1
    /\ compatible' = compatible \cup {input_dirs[idx + 1]}
    /\ trace' = Append(trace, "input_validation.make_nnunet_compatible")
    /\ UNCHANGED << call, pc, model_name, input_dirs, output_dirs, cur, environ,
                    engine, console, logged, ret, spinner, torch >>

(* The loop is over: the spinner succeeds, the RUNNING PREDICTION header is *)
(* printed and main returns.                                                *)
MainFinish ==
    /\ pc = "main_compatible_loop"
    /\ idx >= Len(input_dirs)
    /\ console' = console \o <<"Data ready for prediction", " RUNNING PREDICTION:">>
    /\ spinner' = "stopped"
    /\ ret' = Return("None")
    /\ pc' = "done"
    /\ UNCHANGED << call, model_name, input_dirs, output_dirs, idx, cur, environ,
                    engine, logged, trace, compatible, torch >>

MainSteps ==
    { "main_download", "main_expected_modality", "main_folder_structure",
      "main_select_subjects", "main_organise", "main_compatible_loop" }

(* A function main calls raises; main catches nothing. *)
MainRaise ==
    /\ pc \in MainSteps
    /\ ret' = Raise("Exception")
    /\ pc' = "done"
    /\ UNCHANGED << call, model_name, input_dirs, output_dirs, idx, cur, environ,
                    engine, console, logged, trace, compatible, spinner, torch >>

(* ---------------------------------------------------------------------- *)
(* The specification.                                                      *)
(* ---------------------------------------------------------------------- *)

Next ==
    \/ Call_map_model_name_to_task_number
    \/ Call_expected_modality
    \/ Call_check_device
    \/ Call_predict
    \/ PredictStart
    \/ EngineExit
    \/ Call_run_prediction
    \/ RunPredictionNext
    \/ RunPredictionComplete
    \/ MainParseArgs
    \/ MainDownload
    \/ MainExpectedModality
    \/ MainFolderStructure
    \/ MainSelectSubjects
    \/ MainOrganise
    \/ MainMakeCompatible
    \/ MainFinish
    \/ MainRaise

Spec == Init /\ [][Next]_vars

(* ---------------------------------------------------------------------- *)
(* What the engine reads from its command line.                            *)
(* ---------------------------------------------------------------------- *)

(* The word that follows the first occurrence of the option, <<>> if none. *)
OptionValue(argv, opt) ==
    LET at == { k \in 1..Len(argv) : argv[k] = opt }
    IN  IF at = {} THEN <<>>
        ELSE LET k == CHOOSE j \in at : \A other \in at : j <= other
             IN  IF k < Len(argv) THEN argv[k + 1] ELSE <<>>

IsDigit(c) == \E d \in 1..10 : Digits[d] = c

DigitValue(c) == (CHOOSE d \in 1..10 : Digits[d] = c) - 1

AllDigits(word) == word # <<>> /\ \A k \in 1..Len(word) : IsDigit(word[k])

(* int(word) of a word of decimal digits *)
RECURSIVE ParseInt(_)
ParseInt(word) ==
    IF word = <<>> THEN 0
    ELSE 10 * ParseInt(SubSeq(word, 1, Len(word) - 1)) + DigitValue(word[Len(word)])

(* The digits of a DatasetNNN_xyz directory name that follow 'Dataset'. *)
RECURSIVE LeadingDigits(_)
LeadingDigits(word) ==
    IF word # <<>> /\ IsDigit(Head(word))
    THEN <<Head(word)>> \o LeadingDigits(Tail(word))
    ELSE <<>>

DatasetPrefix == <<"D", "a", "t", "a", "s", "e", "t">>

DatasetNumber(directory) ==
    ParseInt(LeadingDigits(SubSeq(directory, Len(DatasetPrefix) + 1, Len(directory))))

Occurrences(seq, x) == Cardinality({ k \in 1..Len(seq) : seq[k] = x })

(* ---------------------------------------------------------------------- *)
(* Claims.                                                                 *)
(* ---------------------------------------------------------------------- *)

C1_TaskNumbers ==
       "clin_ct_bones" :> 201 @@ "clin_ct_ribs" :> 202 @@ "clin_ct_vertebrae" :> 203
    @@ "clin_ct_muscles" :> 204 @@ "clin_ct_lungs" :> 205 @@ "clin_ct_fat" :> 206
    @@ "clin_ct_vessels" :> 207 @@ "clin_ct_organs" :> 208
    @@ "clin_pt_fdg_tumor" :> 209 @@ "clin_ct_all" :> 210
    @@ "clin_fdg_pt_ct_all" :> 211 @@ "preclin_mr_all" :> 212

(* C1: map_model_name_to_task_number returns 201..212 for its twelve model *)
(* names and, for every other name, raises and returns no task number.      *)
C1_TaskNumberLookup ==
    (call = "map_model_name_to_task_number" /\ pc = "done") =>
        /\ Cardinality(DOMAIN C1_TaskNumbers) = 12
        /\ IF model_name \in DOMAIN C1_TaskNumbers
           THEN ret = Return(C1_TaskNumbers[model_name])
           ELSE ret.raised /\ "value" \notin DOMAIN ret

(* C1 witness: the lookup has answered for a known and the call is over. *)
C1_Witness ==
    /\ call = "map_model_name_to_task_number"
    /\ pc = "done"
    /\ model_name = "clin_fdg_pt_ct_all"
    /\ ret = Return(211)

(* C2: when an engine process exits with a non-zero status, the failure    *)
(* reaches the caller of predict or run_prediction, and run_prediction does *)
(* not report 'Prediction complete'.                                        *)
C2_ExitStatusPropagated ==
    ( /\ call \in {"predict", "run_prediction"}
      /\ pc = "done"
      /\ \E k \in 1..Len(engine) :
             engine[k].state = "exited" /\ engine[k].returncode # 0 ) =>
        /\ ret.raised
        /\ Occurrences(console, "Prediction complete") = 0

(* C3: a run of main that completes normally has invoked the engine for    *)
(* each prepared input directory, after the directory was made compatible. *)
C3_MainInvokesEngine ==
    (call = "main" /\ pc = "done" /\ ~ret.raised) =>
        \A i \in 1..Len(input_dirs) :
            /\ input_dirs[i] \in compatible
            /\ \E k \in 1..Len(engine) : engine[k].args.input_dir = input_dirs[i]

(* C4: for a valid model name and n input and n output directories,        *)
(* run_prediction starts the predict call of pair i as its i-th engine      *)
(* invocation, n in all, and reports 'Prediction complete' once, when the   *)
(* n-th invocation has returned.                                            *)
C4_RunPredictionSequence ==
    ( /\ call = "run_prediction"
      /\ model_name \in DOMAIN C1_TaskNumbers
      /\ Len(input_dirs) = Len(output_dirs) ) =>
        /\ Len(engine) <= Len(input_dirs)
        /\ \A k \in 1..Len(engine) :
               /\ engine[k].args.input_dir = input_dirs[k]
               /\ engine[k].args.output_dir = output_dirs[k]
               /\ k < Len(engine) => engine[k].state = "exited"
        /\ Occurrences(console, "Prediction complete") = (IF pc = "done" THEN 1 ELSE 0)
        /\ pc = "done" =>
               /\ Len(engine) = Len(input_dirs)
               /\ \A k \in 1..Len(engine) : engine[k].state = "exited"
               /\ ~ret.raised

(* C4 witness: a batch of two different pairs has been predicted. *)
C4_Witness ==
    /\ call = "run_prediction"
    /\ pc = "done"
    /\ Len(input_dirs) = 2
    /\ Len(output_dirs) = 2
    /\ input_dirs[1] # input_dirs[2]
    /\ output_dirs[1] # output_dirs[2]
    /\ Len(engine) = 2
    /\ console = <<"Prediction complete">>

(* C5: the engine started by predict(model_name, input_dir, output_dir)    *)
(* receives exactly input_dir as its input, output_dir as its output and    *)
(* the task number of model_name, with RESULTS_FOLDER set to the configured *)
(* results folder.                                                          *)
C5_EngineArguments ==
    \A k \in 1..Len(engine) :
        /\ OptionValue(engine[k].argv, <<"-", "i">>) = engine[k].args.input_dir
        /\ OptionValue(engine[k].argv, <<"-", "o">>) = engine[k].args.output_dir
        /\ AllDigits(OptionValue(engine[k].argv, <<"-", "t">>))
        /\ ParseInt(OptionValue(engine[k].argv, <<"-", "t">>))
               = C1_TaskNumbers[engine[k].args.model_name]
        /\ engine[k].env.RESULTS_FOLDER = NNUNET_RESULTS_FOLDER

(* C6: the engine is invoked with the configuration name of the selected   *)
(* model's registry entry, for every model that has one.                    *)
C6_ConfigurationFromRegistry ==
    \A k \in 1..Len(engine) :
        LET name == engine[k].args.model_name
        IN  (name \in DOMAIN MODELS /\ "configuration" \in DOMAIN MODELS[name]) =>
                OptionValue(engine[k].argv, <<"-", "m">>) = MODELS[name].configuration

(* C7: expected_modality never raises; for a name it knows it returns the  *)
(* four-key descriptor whose 'Model name' is the argument, for any other    *)
(* name it logs an error and returns the one-key 'Error' descriptor.        *)
C7_ExpectedModalityTotal ==
    (call = "expected_modality" /\ pc = "done") =>
        /\ ~ret.raised
        /\ IF model_name \in DOMAIN expected_modality_models
           THEN /\ DOMAIN ret.value
                       = {"Imaging", "Modality", "Tissue of interest", "Model name"}
                /\ ret.value["Model name"] = model_name
           ELSE /\ DOMAIN ret.value = {"Error"}
                /\ "Modality" \notin DOMAIN ret.value
                /\ Len(logged) = 1

(* C7 witness: a known name has got its descriptor. *)
C7_Witness ==
    /\ call = "expected_modality"
    /\ pc = "done"
    /\ model_name = "clin_ct_aorta"
    /\ ret.value["Model name"] = "clin_ct_aorta"
    /\ ret.value["Modality"] = "CT"

(* C8: expected_modality returns a non-error descriptor for exactly the    *)
(* model identifiers that are keys of MODELS.                               *)
C8_EveryModelHasModality ==
    (call = "expected_modality" /\ pc = "done") =>
        (model_name \in AVAILABLE_MODELS <=> "Error" \notin DOMAIN ret.value)

RegistryKeys ==
    {"url", "filename", "directory", "trainer", "voxel_spacing", "multilabel_prefix",
     "organ_indices", "limit_fov"}

(* C9: the MODELS value of every registry model a call selects has the    *)
(* keys url, filename, directory, trainer, voxel_spacing and                *)
(* multilabel_prefix, next to organ_indices and limit_fov, so reading them  *)
(* raises no missing-key error.                                             *)
C9_RegistryKeysPresent ==
    model_name \in AVAILABLE_MODELS => RegistryKeys \subseteq DOMAIN MODELS[model_name]

(* C10: the task number of an accepted model that has a registry directory *)
(* is the number after 'Dataset' in that directory name.                    *)
C10_TaskNumberIsDatasetNumber ==
    ( /\ call = "map_model_name_to_task_number"
      /\ pc = "done"
      /\ ~ret.raised
      /\ model_name \in DOMAIN MODELS
      /\ "directory" \in DOMAIN MODELS[model_name] ) =>
        ret.value = DatasetNumber(MODELS[model_name].directory)

(* The calls of main before the compatibility loop, in the order of the code. *)
C11_Pipeline ==
    << "download.model", "display.expected_modality",
       "file_utilities.moose_folder_structure",
       "input_validation.select_moose_compliant_subjects",
       "file_utilities.organise_files_by_modality" >>

(* C11: in a run of main the steps that have returned are, in this order    *)
(* and each once, the model download, the expected-modality lookup, the     *)
(* MOOSE directory structure, the subject selection and the organisation by *)
(* modality, and only then make_nnunet_compatible per input directory.      *)
C11_MainStepOrder ==
    call = "main" =>
        LET n == Min(Len(trace), Len(C11_Pipeline))
        IN  /\ SubSeq(trace, 1, n) = SubSeq(C11_Pipeline, 1, n)
            /\ \A k \in (Len(C11_Pipeline) + 1)..Len(trace) :
                   trace[k] = "input_validation.make_nnunet_compatible"
            /\ Occurrences(trace, "input_validation.make_nnunet_compatible")
                   <= Len(input_dirs)
            /\ compatible # {} => Len(trace) > Len(C11_Pipeline)

(* C11 witness: main has returned after making two directories compatible. *)
C11_Witness ==
    /\ call = "main"
    /\ pc = "done"
    /\ ~ret.raised
    /\ Len(trace) = Len(C11_Pipeline) + 2
    /\ Cardinality(compatible) = 2

(* C12: during run_prediction at most one engine process runs, the process *)
(* of pair i+1 starts only after that of pair i has terminated, and no      *)
(* spinner thread runs beside the loop.                                     *)
C12_SequentialEngine ==
    call = "run_prediction" =>
        /\ Cardinality({ k \in 1..Len(engine) : engine[k].state = "running" }) <= 1
        /\ \A k \in 1..Len(engine) :
               engine[k].state = "running" => (k = Len(engine) /\ pc = "predict_wait")
        /\ pc = "predict" => \A k \in 1..Len(engine) : engine[k].state = "exited"
        /\ spinner # "spinning"

(* C12 witness: the second process runs and the first has terminated. *)
C12_Witness ==
    /\ call = "run_prediction"
    /\ pc = "predict_wait"
    /\ Len(engine) = 2
    /\ engine[1].state = "exited"
    /\ engine[2].state = "running"

(* C13: check_device returns 'cuda' exactly when CUDA is available, 'mps'  *)
(* exactly when CUDA is not and the MPS backend is available, and 'cpu'     *)
(* exactly when neither is, built with MPS or not.                          *)
C13_DevicePriority ==
    (call = "check_device" /\ pc = "done") =>
        /\ ~ret.raised
        /\ ret.value \in {"cpu", "cuda", "mps"}
        /\ ret.value = "cuda" <=> torch.cuda
        /\ ret.value = "mps" <=> (~torch.cuda /\ torch.mps_available)
        /\ ret.value = "cpu" <=> (~torch.cuda /\ ~torch.mps_available)

(* C13 witness: CUDA and MPS are both available and CUDA was chosen. *)
C13_Witness ==
    /\ call = "check_device"
    /\ pc = "done"
    /\ torch.cuda
    /\ torch.mps_available
    /\ ret.value = "cuda"

(* The number of crop dependencies followed from a model until one without *)
(* limit_fov or outside MODELS is reached, at most fuel.                    *)
RECURSIVE CropChainLength(_, _)
CropChainLength(name, fuel) ==
    IF fuel = 0 \/ name \notin AVAILABLE_MODELS THEN 0
    ELSE IF MODELS[name].limit_fov = {} THEN 0
    ELSE LET fov == CHOOSE f \in MODELS[name].limit_fov : TRUE
         IN  1 + CropChainLength(fov.model_to_crop_from, fuel - 1)

(* C14: a registry model with a limit_fov crops from a different model that *)
(* is a key of MODELS and has no limit_fov itself, whose organ_indices have  *)
(* label_intensity_to_crop_from and every inference_fov_intensities value as *)
(* keys; its chain of crop dependencies has one step.                        *)
C14_CropRelationsWellFormed ==
    (model_name \in AVAILABLE_MODELS /\ MODELS[model_name].limit_fov # {}) =>
        /\ \A fov \in MODELS[model_name].limit_fov :
               LET source == fov.model_to_crop_from
               IN  /\ source # model_name
                   /\ source \in AVAILABLE_MODELS
                   /\ fov.label_intensity_to_crop_from
                          \in DOMAIN MODELS[source].organ_indices
                   /\ \A k \in 1..Len(fov.inference_fov_intensities) :
                          fov.inference_fov_intensities[k]
                              \in DOMAIN MODELS[source].organ_indices
                   /\ MODELS[source].limit_fov = {}
        /\ CropChainLength(model_name, Cardinality(AVAILABLE_MODELS) + 1) = 1

(* C14 witness: a call has selected the model cropped with two intensities. *)
C14_Witness ==
    /\ pc = "done"
    /\ model_name = "clin_ct_body_composition"
    /\ MODELS[model_name].limit_fov # {}
=============================================================================
